---- MODULE Spec2Model ----
(***************************************************************************)
(* Registration validation: RegistrationValidator (server_validation.py)   *)
(* and RegistrationForm (forms/registration_form.py).                      *)
(*                                                                         *)
(* A Python str is a sequence of one-character strings.  A value handed to *)
(* a validator is a str, an int or None; a key missing from the input map  *)
(* is Absent.  A method call yields [ret, errors, exc]: the returned bool, *)
(* the accumulator after the call and the exception that left the call     *)
(* ("none" when it returned).                                              *)
(***************************************************************************)
EXTENDS Integers, Sequences, FiniteSets, TLC

\* ------------------------------------------------------------ bounds
\* Longest free part ("core") of an enumerated input string.
MaxLen == 2
\* Most method calls made on one instance before it is discarded.
MaxCalls == 2
\* Callers validating at the same time.
NThreads == 2

\* ------------------------------------------------------- characters
Lower == {"a","b","c","d","e","f","g","h","i","j","k","l","m",
          "n","o","p","q","r","s","t","u","v","w","x","y","z"}
Upper == {"A","B","C","D","E","F","G","H","I","J","K","L","M",
          "N","O","P","Q","R","S","T","U","V","W","X","Y","Z"}
\* \d, restricted to the ASCII digits
Digit == {"0","1","2","3","4","5","6","7","8","9"}
\* characters a TLA+ string cannot spell, by name: U+0000, U+007F, U+00A0
NUL  == "NUL"
DEL  == "DEL"
NBSP == "NBSP"
\* \s and the characters str.strip()/str.split() treat as whitespace
Whitespace == {" ", "\t", "\n", "\r", "\f", NBSP}
\* [\x00-\x1F\x7F]
Control == {"\t", "\n", "\r", "\f", NUL, DEL}
\* every character the model's inputs are built from
Chars == Lower \cup Upper \cup Digit \cup Whitespace \cup
         {"@","$","!","%","*","?","&","#","^","(",")",",",".","\"",":",
          "{","}","|","<",">","_","+","-","'", NUL, DEL}

\* ---------------------------------------------------------- strings
Rep(c, n) == [i \in 1..n |-> c]

\* all strings over alphabet A of length at most n
RECURSIVE StrsUpTo(_, _)
StrsUpTo(A, n) ==
    IF n = 0 THEN {<<>>}
    ELSE LET shorter == StrsUpTo(A, n - 1)
         IN  shorter \cup {Append(s, c) : s \in {t \in shorter : Len(t) = n - 1}, c \in A}

AllIn(s, lo, hi, C) == \A k \in lo..hi : s[k] \in C

\* str.strip(): drop leading and trailing whitespace
Strip(s) ==
    LET keep == {i \in 1..Len(s) : s[i] \notin Whitespace}
    IN  IF keep = {} THEN <<>>
        ELSE LET lo == CHOOSE i \in keep : \A j \in keep : i <= j
                 hi == CHOOSE i \in keep : \A j \in keep : j <= i
             IN  SubSeq(s, lo, hi)

\* Positions at which `$` matches (re without MULTILINE): the end of the
\* string, and just before a newline that is the last character.
DollarEnds(s) ==
    {Len(s)} \cup (IF Len(s) >= 1 /\ s[Len(s)] = "\n" THEN {Len(s) - 1} ELSE {})

\* ----------------------------------------------------------- values
Str(s)  == [kind |-> "str",    s |-> s,    n |-> 0]
Int_(n) == [kind |-> "int",    s |-> <<>>, n |-> n]
None    == [kind |-> "none",   s |-> <<>>, n |-> 0]
Absent  == [kind |-> "absent", s |-> <<>>, n |-> 0]

\* Python truthiness: `not value`
Falsy(v) ==
    \/ v.kind = "none"
    \/ v.kind = "int" /\ v.n = 0
    \/ v.kind = "str" /\ v.s = <<>>

\* dict.get(key, default) on an input map
Get(data, key, default) ==
    IF data[key].kind = "absent" THEN default ELSE data[key]

\* ------------------------------------------- the errors dict (ordered)
\* A dict keeps insertion order: a sequence of [k, m], one per key.
EmptyDict == <<>>
Keys(d) == {d[i].k : i \in DOMAIN d}
\* mutant: a new key goes to the front of the iteration order
DictSet_front(d, k, m) ==
    IF k \in Keys(d)
    THEN [i \in DOMAIN d |-> IF d[i].k = k THEN [k |-> k, m |-> m] ELSE d[i]]
    ELSE <<[k |-> k, m |-> m]>> \o d

DictSet(d, k, m) ==
    IF k \in Keys(d)
    THEN [i \in DOMAIN d |-> IF d[i].k = k THEN [k |-> k, m |-> m] ELSE d[i]]
    ELSE Append(d, [k |-> k, m |-> m])
DictGet(d, k) == LET i == CHOOSE i \in DOMAIN d : d[i].k = k IN d[i].m

Returned(b, errs) == [ret |-> b, errors |-> errs, exc |-> "none"]
Raised(e, errs)   == [ret |-> FALSE, errors |-> errs, exc |-> e]

\* ======================================================================
\* RegistrationValidator (server_validation.py)
\* ======================================================================
NAME_MIN_LENGTH == 2
NAME_MAX_LENGTH == 50
EMAIL_MAX_LENGTH == 254
PASSWORD_MIN == 8
PASSWORD_MAX == 128
PASSWORD_REGEX_MIN == 8

\* field_name.replace('_', ' ').title()
Title(field_name) ==
    CASE field_name = "first_name"       -> "First Name"
      [] field_name = "last_name"        -> "Last Name"
      [] field_name = "email"            -> "Email"
      [] field_name = "password"         -> "Password"
      [] field_name = "confirm_password" -> "Confirm Password"

RequiredMsg(field_name)  == [title |-> Title(field_name), text |-> " is required"]
TooShortMsg(field_name)  == [title |-> Title(field_name), text |-> " must be at least 2 characters"]
TooLongMsg(field_name)   == [title |-> Title(field_name), text |-> " is too long (max 50 characters)"]
BadCharsMsg(field_name)  ==
    [title |-> Title(field_name),
     text  |-> " can only contain letters, spaces, hyphens, and apostrophes"]
Msg(text) == [title |-> "", text |-> text]

\* EMAIL_REGEX = ^[^\s@]+@[^\s@]+\.[^\s@]+$
NotSpaceAt == Chars \ (Whitespace \cup {"@"})
EMAIL_REGEX(s) ==
    \E e \in DollarEnds(s) :
      \E i \in 2..e :
        /\ s[i] = "@"
        /\ AllIn(s, 1, i - 1, NotSpaceAt)
        /\ \E j \in (i + 2)..(e - 1) :
             /\ s[j] = "."
             /\ AllIn(s, i + 1, j - 1, NotSpaceAt)
             /\ AllIn(s, j + 1, e, NotSpaceAt)

\* (?=.*X): some character of X with no newline before it (`.` stops at \n)
Lookahead(s, X) ==
    \E k \in 1..Len(s) : s[k] \in X /\ \A m \in 1..(k - 1) : s[m] # "\n"

\* PASSWORD_REGEX =
\*   ^(?=.*[a-z])(?=.*[A-Z])(?=.*\d)(?=.*[@$!%*?&#])[A-Za-z\d@$!%*?&#]{8,}$
PasswordSpecials == {"@","$","!","%","*","?","&","#"}
PasswordChars == Lower \cup Upper \cup Digit \cup PasswordSpecials
PASSWORD_REGEX(s) ==
    /\ Lookahead(s, Lower)
    /\ Lookahead(s, Upper)
    /\ Lookahead(s, Digit)
    /\ Lookahead(s, PasswordSpecials)
    /\ \E e \in DollarEnds(s) : e >= PASSWORD_REGEX_MIN /\ AllIn(s, 1, e, PasswordChars)

\* ^[a-zA-Z '-]+$
NameChars == Lower \cup Upper \cup {" ", "'", "-"}
NAME_REGEX(s) == \E e \in DollarEnds(s) : e >= 1 /\ AllIn(s, 1, e, NameChars)

\* mutant: only `not value` is tested, a whitespace-only value passes
validate_required_no_strip(errors, field_name, value) ==
    IF Falsy(value)
    THEN Returned(FALSE, DictSet(errors, field_name, RequiredMsg(field_name)))
    ELSE IF value.kind # "str"
    THEN Raised("AttributeError", errors)
    ELSE Returned(TRUE, errors)

validate_required(errors, field_name, value) ==
    IF Falsy(value)
    THEN Returned(FALSE, DictSet(errors, field_name, RequiredMsg(field_name)))
    ELSE IF value.kind # "str"
    THEN Raised("AttributeError", errors)          \* value.strip() on an int
    ELSE IF Strip(value.s) = <<>>
    THEN Returned(FALSE, DictSet(errors, field_name, RequiredMsg(field_name)))
    ELSE Returned(TRUE, errors)

\* mutant: a valid address clears the error recorded for the email before
validate_email_clearing(errors, email) ==
    LET req == validate_required(errors, "email", email)
    IN  IF req.exc # "none" \/ ~req.ret THEN req
        ELSE IF ~EMAIL_REGEX(email.s)
        THEN Returned(FALSE, DictSet(errors, "email", Msg("Please enter a valid email address")))
        ELSE IF Len(email.s) > EMAIL_MAX_LENGTH
        THEN Returned(FALSE, DictSet(errors, "email", Msg("Email address is too long")))
        ELSE Returned(TRUE, SelectSeq(errors, LAMBDA e : e.k # "email"))

\* mutant: the length of the address is tested before its format
validate_email_length_first(errors, email) ==
    LET req == validate_required(errors, "email", email)
    IN  IF req.exc # "none" \/ ~req.ret THEN req
        ELSE IF Len(email.s) > EMAIL_MAX_LENGTH
        THEN Returned(FALSE, DictSet(errors, "email", Msg("Email address is too long")))
        ELSE IF ~EMAIL_REGEX(email.s)
        THEN Returned(FALSE, DictSet(errors, "email", Msg("Please enter a valid email address")))
        ELSE Returned(TRUE, errors)

validate_email(errors, email) ==
    LET req == validate_required(errors, "email", email)
    IN  IF req.exc # "none" \/ ~req.ret THEN req
        ELSE IF ~EMAIL_REGEX(email.s)
        THEN Returned(FALSE, DictSet(errors, "email", Msg("Please enter a valid email address")))
        ELSE IF Len(email.s) > EMAIL_MAX_LENGTH
        THEN Returned(FALSE, DictSet(errors, "email", Msg("Email address is too long")))
        ELSE Returned(TRUE, errors)

PasswordCompositionMsg ==
    Msg("Password must contain at least one uppercase letter, one lowercase letter, one digit, and one special character (@$!%*?&#)")

validate_password(errors, password) ==
    LET req == validate_required(errors, "password", password)
    IN  IF req.exc # "none" \/ ~req.ret THEN req
        ELSE IF Len(password.s) < PASSWORD_MIN
        THEN Returned(FALSE, DictSet(errors, "password",
                                     Msg("Password must be at least 8 characters long")))
        ELSE IF Len(password.s) > PASSWORD_MAX
        THEN Returned(FALSE, DictSet(errors, "password",
                                     Msg("Password is too long (max 128 characters)")))
        ELSE IF ~PASSWORD_REGEX(password.s)
        THEN Returned(FALSE, DictSet(errors, "password", PasswordCompositionMsg))
        ELSE Returned(TRUE, errors)

\* mutant: the confirmation is compared only when the password passed its rule
validate_password_match_if_valid(errors, password, confirm_password) ==
    LET req == validate_required(errors, "confirm_password", confirm_password)
    IN  IF req.exc # "none" \/ ~req.ret THEN req
        ELSE IF validate_password(EmptyDict, password).ret /\ password # confirm_password
        THEN Returned(FALSE, DictSet(errors, "confirm_password", Msg("Passwords do not match")))
        ELSE Returned(TRUE, errors)

validate_password_match(errors, password, confirm_password) ==
    LET req == validate_required(errors, "confirm_password", confirm_password)
    IN  IF req.exc # "none" \/ ~req.ret THEN req
        ELSE IF password # confirm_password
        THEN Returned(FALSE, DictSet(errors, "confirm_password", Msg("Passwords do not match")))
        ELSE Returned(TRUE, errors)

validate_name(errors, field_name, value) ==
    LET req == validate_required(errors, field_name, value)
    IN  IF req.exc # "none" \/ ~req.ret THEN req
        ELSE IF Len(Strip(value.s)) < NAME_MIN_LENGTH
        THEN Returned(FALSE, DictSet(errors, field_name, TooShortMsg(field_name)))
        ELSE IF Len(value.s) > NAME_MAX_LENGTH
        THEN Returned(FALSE, DictSet(errors, field_name, TooLongMsg(field_name)))
        ELSE IF ~NAME_REGEX(value.s)
        THEN Returned(FALSE, DictSet(errors, field_name, BadCharsMsg(field_name)))
        ELSE Returned(TRUE, errors)

\* mutant: the accumulator is not reset at the start of a full validation
ResetErrors_kept(errors) == errors

\* self.errors = {}  # Reset errors
ResetErrors(errors) == EmptyDict

\* mutant: the five checks chained with `and`, so a failed check skips the rest
validate_registration_shortcut(errors, data) ==
    LET first_name       == Get(data, "first_name", Str(<<>>))
        last_name        == Get(data, "last_name", Str(<<>>))
        email            == Get(data, "email", Str(<<>>))
        password         == Get(data, "password", Str(<<>>))
        confirm_password == Get(data, "confirm_password", Str(<<>>))
        r1 == validate_name(ResetErrors(errors), "first_name", first_name)
        r2 == IF r1.ret THEN validate_name(r1.errors, "last_name", last_name) ELSE r1
        r3 == IF r2.ret THEN validate_email(r2.errors, email) ELSE r2
        r4 == IF r3.ret THEN validate_password(r3.errors, password) ELSE r3
        r5 == IF r4.ret THEN validate_password_match(r4.errors, password, confirm_password)
              ELSE r4
    IN  r5

\* validate_registration: reset, read the five fields, run the five checks in
\* order on the one accumulator, and return (all passed, self.errors).  An
\* exception raised by a check leaves the call at once.
validate_registration(errors, data) ==
    LET first_name       == Get(data, "first_name", Str(<<>>))
        last_name        == Get(data, "last_name", Str(<<>>))
        email            == Get(data, "email", Str(<<>>))
        password         == Get(data, "password", Str(<<>>))
        confirm_password == Get(data, "confirm_password", Str(<<>>))
        r1 == validate_name(ResetErrors(errors), "first_name", first_name)
        r2 == validate_name(r1.errors, "last_name", last_name)
        r3 == validate_email(r2.errors, email)
        r4 == validate_password(r3.errors, password)
        r5 == validate_password_match(r4.errors, password, confirm_password)
    IN  IF r1.exc # "none" THEN r1
        ELSE IF r2.exc # "none" THEN r2
        ELSE IF r3.exc # "none" THEN r3
        ELSE IF r4.exc # "none" THEN r4
        ELSE IF r5.exc # "none" THEN r5
        ELSE Returned(r1.ret /\ r2.ret /\ r3.ret /\ r4.ret /\ r5.ret, r5.errors)

\* str.split(): the maximal runs of non-whitespace characters, in order
RECURSIVE Split(_)
Split(s) ==
    LET word == {i \in 1..Len(s) : s[i] \notin Whitespace}
    IN  IF word = {} THEN <<>>
        ELSE LET i == CHOOSE a \in word : \A b \in word : a <= b
                 stops == {j \in i..Len(s) : s[j] \in Whitespace}
                 j == IF stops = {} THEN Len(s) + 1
                      ELSE CHOOSE a \in stops : \A b \in stops : a <= b
             IN  <<SubSeq(s, i, j - 1)>> \o Split(SubSeq(s, j, Len(s)))

\* ' '.join(words)
RECURSIVE Join(_)
Join(words) ==
    IF words = <<>> THEN <<>>
    ELSE IF Len(words) = 1 THEN words[1]
    ELSE words[1] \o <<" ">> \o Join(Tail(words))

\* re.sub(r'[\x00-\x1F\x7F]', '', value)
RemoveControl(s) == SelectSeq(s, LAMBDA c : c \notin Control)

TextResult(s) == [text |-> s, exc |-> "none"]

\* mutant: control characters removed and the ends trimmed, inner whitespace
\* left as it is
sanitize_input_trim_only(value) ==
    IF Falsy(value) THEN TextResult(<<>>)
    ELSE IF value.kind # "str" THEN [text |-> <<>>, exc |-> "TypeError"]
    ELSE TextResult(Strip(RemoveControl(value.s)))

\* mutant: whitespace collapsed before the control characters are removed
sanitize_input_collapse_first(value) ==
    IF Falsy(value) THEN TextResult(<<>>)
    ELSE IF value.kind # "str" THEN [text |-> <<>>, exc |-> "TypeError"]
    ELSE TextResult(Strip(RemoveControl(Join(Split(value.s)))))

sanitize_input(value) ==
    IF Falsy(value) THEN TextResult(<<>>)
    ELSE IF value.kind # "str"
    THEN [text |-> <<>>, exc |-> "TypeError"]          \* re.sub on an int
    ELSE TextResult(Strip(Join(Split(RemoveControl(value.s)))))

\* mutant: the handler takes every payload for valid
validate_registration_data_lenient(data) == Returned(TRUE, EmptyDict)

\* validate_registration_data: a new RegistrationValidator, then
\* validate_registration on it
validate_registration_data(data) == validate_registration(EmptyDict, data)

\* ======================================================================
\* RegistrationForm (forms/registration_form.py)
\* ======================================================================
USERNAME_MIN == 3
USERNAME_MAX == 20
TLD_MIN == 2
PASSWORD_MIN_LENGTH == 8
PHONE_MIN == 10
MIN_AGE == 13
MAX_AGE == 150

\* USERNAME_PATTERN = ^[a-zA-Z0-9_]{3,20}$
UsernameChars == Lower \cup Upper \cup Digit \cup {"_"}
USERNAME_PATTERN(s) ==
    \E e \in DollarEnds(s) :
        e >= USERNAME_MIN /\ e <= USERNAME_MAX /\ AllIn(s, 1, e, UsernameChars)

\* EMAIL_PATTERN = ^[a-zA-Z0-9._%+-]+@[a-zA-Z0-9.-]+\.[a-zA-Z]{2,}$
EmailLocalChars  == Lower \cup Upper \cup Digit \cup {".", "_", "%", "+", "-"}
EmailDomainChars == Lower \cup Upper \cup Digit \cup {".", "-"}
EMAIL_PATTERN(s) ==
    \E e \in DollarEnds(s) :
      \E i \in 2..e :
        /\ s[i] = "@"
        /\ AllIn(s, 1, i - 1, EmailLocalChars)
        /\ \E j \in (i + 2)..(e - TLD_MIN) :
             /\ s[j] = "."
             /\ AllIn(s, i + 1, j - 1, EmailDomainChars)
             /\ AllIn(s, j + 1, e, Lower \cup Upper)

\* mutant: `$` matches only at the very end and \s is the space alone
PHONE_PATTERN_spaces_only(s) ==
    Len(s) >= 10 /\ AllIn(s, 1, Len(s), Digit \cup {" ", "-", "+", "(", ")"})

\* PHONE_PATTERN = ^[\d\s\-\+\(\)]{10,}$
PhoneChars == Digit \cup Whitespace \cup {"-", "+", "(", ")"}
PHONE_PATTERN(s) ==
    \E e \in DollarEnds(s) : e >= PHONE_MIN /\ AllIn(s, 1, e, PhoneChars)

\* re.search(r'[X]', s)
Search(s, X) == \E k \in 1..Len(s) : s[k] \in X

\* [!@#$%^&*(),.?":{}|<>]
FormSpecials == {"!","@","#","$","%","^","&","*","(",")",",",".","?","\"",":",
                 "{","}","|","<",">"}

Form_validate_username(errors, username) ==
    IF Falsy(username)
    THEN Returned(FALSE, Append(errors, Msg("Username is required")))
    ELSE IF username.kind # "str"
    THEN Raised("TypeError", errors)               \* pattern.match on an int
    ELSE IF ~USERNAME_PATTERN(username.s)
    THEN Returned(FALSE, Append(errors,
           Msg("Username must be 3-20 characters long and contain only letters, numbers, and underscores")))
    ELSE Returned(TRUE, errors)

Form_validate_email(errors, email) ==
    IF Falsy(email)
    THEN Returned(FALSE, Append(errors, Msg("Email is required")))
    ELSE IF email.kind # "str"
    THEN Raised("TypeError", errors)
    ELSE IF ~EMAIL_PATTERN(email.s)
    THEN Returned(FALSE, Append(errors, Msg("Invalid email format")))
    ELSE Returned(TRUE, errors)

Form_validate_password(errors, password) ==
    IF Falsy(password)
    THEN Returned(FALSE, Append(errors, Msg("Password is required")))
    ELSE IF password.kind # "str"
    THEN Raised("TypeError", errors)               \* len() of an int
    ELSE IF Len(password.s) < PASSWORD_MIN_LENGTH
    THEN Returned(FALSE, Append(errors, Msg("Password must be at least 8 characters long")))
    ELSE IF ~Search(password.s, Upper)
    THEN Returned(FALSE, Append(errors,
                                Msg("Password must contain at least one uppercase letter")))
    ELSE IF ~Search(password.s, Lower)
    THEN Returned(FALSE, Append(errors,
                                Msg("Password must contain at least one lowercase letter")))
    ELSE IF ~Search(password.s, Digit)
    THEN Returned(FALSE, Append(errors, Msg("Password must contain at least one number")))
    ELSE IF ~Search(password.s, FormSpecials)
    THEN Returned(FALSE, Append(errors,
                                Msg("Password must contain at least one special character")))
    ELSE Returned(TRUE, errors)

Form_validate_password_confirmation(errors, password, confirm_password) ==
    IF Falsy(confirm_password)
    THEN Returned(FALSE, Append(errors, Msg("Password confirmation is required")))
    ELSE IF password # confirm_password
    THEN Returned(FALSE, Append(errors, Msg("Passwords do not match")))
    ELSE Returned(TRUE, errors)

\* int(str): surrounding whitespace dropped, an optional sign, then digits
\* (single underscores allowed between digits); anything else is ValueError.
DigitSeq == <<"0","1","2","3","4","5","6","7","8","9">>
DigitVal(c) == (CHOOSE i \in 1..10 : DigitSeq[i] = c) - 1
RECURSIVE DigitsToNat(_)
DigitsToNat(ds) ==
    IF ds = <<>> THEN 0
    ELSE 10 * DigitsToNat(SubSeq(ds, 1, Len(ds) - 1)) + DigitVal(ds[Len(ds)])
ParseInt(s) ==
    LET t    == Strip(s)
        sgn  == Len(t) >= 1 /\ t[1] \in {"+", "-"}
        body == IF sgn THEN SubSeq(t, 2, Len(t)) ELSE t
        wellFormed ==
            /\ Len(body) >= 1
            /\ body[1] \in Digit /\ body[Len(body)] \in Digit
            /\ \A k \in 1..Len(body) : body[k] \in Digit \cup {"_"}
            /\ \A k \in 1..(Len(body) - 1) : ~(body[k] = "_" /\ body[k + 1] = "_")
        digits == SelectSeq(body, LAMBDA c : c \in Digit)
        mag == DigitsToNat(digits)
    IN  IF wellFormed
        THEN [ok |-> TRUE, n |-> IF sgn /\ t[1] = "-" THEN 0 - mag ELSE mag]
        ELSE [ok |-> FALSE, n |-> 0]

\* mutant: the lower bound is exclusive (13 itself is refused)
Form_validate_age_exclusive(errors, age) ==
    IF age.kind = "none" THEN Returned(TRUE, errors)
    ELSE LET parsed == IF age.kind = "int" THEN [ok |-> TRUE, n |-> age.n]
                       ELSE ParseInt(age.s)
         IN  IF ~parsed.ok
             THEN Returned(FALSE, Append(errors, Msg("Age must be a valid number")))
             ELSE IF parsed.n <= MIN_AGE
             THEN Returned(FALSE, Append(errors,
                           Msg("You must be at least 13 years old to register")))
             ELSE IF parsed.n > MAX_AGE
             THEN Returned(FALSE, Append(errors, Msg("Please enter a valid age")))
             ELSE Returned(TRUE, errors)

Form_validate_age(errors, age) ==
    IF age.kind = "none" THEN Returned(TRUE, errors)
    ELSE LET parsed == IF age.kind = "int" THEN [ok |-> TRUE, n |-> age.n]
                       ELSE ParseInt(age.s)
         IN  IF ~parsed.ok
             THEN Returned(FALSE, Append(errors, Msg("Age must be a valid number")))
             ELSE IF parsed.n < MIN_AGE
             THEN Returned(FALSE, Append(errors,
                           Msg("You must be at least 13 years old to register")))
             ELSE IF parsed.n > MAX_AGE
             THEN Returned(FALSE, Append(errors, Msg("Please enter a valid age")))
             ELSE Returned(TRUE, errors)

Form_validate_phone(errors, phone) ==
    IF Falsy(phone) THEN Returned(TRUE, errors)
    ELSE IF phone.kind # "str"
    THEN Raised("TypeError", errors)
    ELSE IF ~PHONE_PATTERN(phone.s)
    THEN Returned(FALSE, Append(errors, Msg("Invalid phone number format")))
    ELSE Returned(TRUE, errors)

\* mutant: the list is not reset at the start of validate()
Form_ResetErrors_kept(errors) == errors

\* self.errors = []  # Reset errors
Form_ResetErrors(errors) == <<>>

\* RegistrationForm.validate: reset, run the six checks in order on the one
\* list, return all([...]); the caller reads the list with get_errors().
Form_validate(errors, form_data) ==
    LET password == Get(form_data, "password", Str(<<>>))
        r1 == Form_validate_username(Form_ResetErrors(errors),
                                     Get(form_data, "username", Str(<<>>)))
        r2 == Form_validate_email(r1.errors, Get(form_data, "email", Str(<<>>)))
        r3 == Form_validate_password(r2.errors, password)
        r4 == Form_validate_password_confirmation(
                  r3.errors, password, Get(form_data, "confirm_password", Str(<<>>)))
        r5 == Form_validate_age(r4.errors, Get(form_data, "age", None))
        r6 == Form_validate_phone(r5.errors, Get(form_data, "phone", None))
    IN  IF r1.exc # "none" THEN r1
        ELSE IF r2.exc # "none" THEN r2
        ELSE IF r3.exc # "none" THEN r3
        ELSE IF r4.exc # "none" THEN r4
        ELSE IF r5.exc # "none" THEN r5
        ELSE IF r6.exc # "none" THEN r6
        ELSE Returned(r1.ret /\ r2.ret /\ r3.ret /\ r4.ret /\ r5.ret /\ r6.ret, r6.errors)

\* ======================================================================
\* The instance under test and the calls made on it
\* ======================================================================
VARIABLES
    cls,         \* class of the live instance
    errors,      \* RegistrationValidator.errors (dict, insertion-ordered)
    formErrors,  \* RegistrationForm.errors (list of messages)
    formData,    \* RegistrationForm.data
    last,        \* the last call: method, arguments, and how it ended
    ncalls,      \* calls made on the instance so far
    threads,     \* concurrent callers: the call each is in and where it stands
    validators,  \* .errors of the instances the concurrent callers use
    web          \* the request being served and the answer to it

vars == <<cls, errors, formErrors, formData, last, ncalls, threads, validators, web>>

ValidatorFields == {"first_name", "last_name", "email", "password", "confirm_password"}
FormFields == {"username", "email", "password", "confirm_password", "age", "phone"}
AllFields == ValidatorFields \cup FormFields

NoData == [f \in AllFields |-> Absent]

RegistrationData(fn, ln, em, pw, cp) ==
    [f \in AllFields |->
        CASE f = "first_name"       -> fn
          [] f = "last_name"        -> ln
          [] f = "email"            -> em
          [] f = "password"         -> pw
          [] f = "confirm_password" -> cp
          [] OTHER                  -> Absent]

FormInput(un, em, pw, cp, ag, ph) ==
    [f \in AllFields |->
        CASE f = "username"         -> un
          [] f = "email"            -> em
          [] f = "password"         -> pw
          [] f = "confirm_password" -> cp
          [] f = "age"              -> ag
          [] f = "phone"            -> ph
          [] OTHER                  -> Absent]

\* what a call left behind: op(args) returned r.ret or raised r.exc;
\* errs is the error map handed back to the caller (the accumulator itself)
CallRecord(op, data, field, value, value2, r) ==
    [op |-> op, data |-> data, field |-> field, value |-> value, value2 |-> value2,
     ret |-> r.ret, exc |-> r.exc, errs |-> r.errors]

NoCall == CallRecord("__init__", NoData, "", Absent, Absent, Returned(TRUE, <<>>))

\* ---- inputs of the calls made on a reused instance (Spec): strings and
\* missing keys
GoodPassword == <<"A","b","c","d","e","f","1","@">>
FirstNameVals == {Absent, Str(<<"A">>), Str(<<"A","l">>)}
LastNameVals  == {Str(<<"A","1">>), Str(<<"A","l">>)}
EmailVals     == {Str(<<"a","@","b">>), Str(<<"a","@","b",".","c","o">>)}
PasswordVals  == {Str(<<"a","b","c">>), Str(<<"a","b","c","d","e","f","g","h">>),
                  Str(GoodPassword)}
ConfirmVals   == {Str(<<" ">>), Str(<<"a","b","c">>), Str(GoodPassword)}
UsernameVals  == {Str(<<"a","b">>), Str(<<"a","b","c">>)}
AgeVals       == {Absent, Str(<<"1","2">>)}
PhoneVals     == {Absent, Str(<<"1","2","3">>)}
\* a field-level method gets a value, never a missing key
Given(vals) == vals \ {Absent}

\* the 'field' key of a probe request: given with a name, or missing
FieldKey(name) == [present |-> TRUE, name |-> name]
NoKey == [present |-> FALSE, name |-> ""]

\* nothing asked yet
NoRequest ==
    [op |-> "none", value |-> Absent, text |-> <<>>, exc |-> "none", json |-> "none",
     data |-> NoData, payload |-> NoData, status |-> 0, success |-> FALSE,
     message |-> "", errors |-> EmptyDict, echo |-> NoData,
     field |-> NoKey, valid |-> FALSE, error |-> Msg("")]

Threads == 1..NThreads
\* instance 0 is one RegistrationValidator every caller can reach; instance t
\* is the one validate_registration_data constructs for caller t
Instances == 0..NThreads
IdleThread ==
    [call |-> "idle", pc |-> "idle", data |-> NoData, valid |-> <<>>,
     out |-> Returned(FALSE, EmptyDict), overlapped |-> FALSE]

Init ==
    /\ cls \in {"RegistrationValidator", "RegistrationForm"}
    /\ errors = EmptyDict
    /\ formErrors = <<>>
    /\ formData = NoData
    /\ last = NoCall
    /\ ncalls = 0
    /\ threads = [t \in Threads |-> IdleThread]
    /\ validators = [i \in Instances |-> EmptyDict]
    /\ web = NoRequest

\* RegistrationValidator() / RegistrationForm(): a fresh instance replaces
\* the one under test
Construct(c) ==
    /\ cls' = c
    /\ errors' = EmptyDict
    /\ formErrors' = <<>>
    /\ formData' = NoData
    /\ last' = NoCall
    /\ ncalls' = 0
    /\ UNCHANGED <<threads, validators, web>>

\* a call on the RegistrationValidator instance
ValidatorCall(op, data, field, value, value2, r) ==
    /\ cls = "RegistrationValidator"
    /\ errors' = r.errors
    /\ last' = CallRecord(op, data, field, value, value2, r)
    /\ ncalls' = ncalls + 1
    /\ UNCHANGED <<cls, formErrors, formData, threads, validators, web>>

\* a call on the RegistrationForm instance; validate() also sets self.data
FormCall(op, data, field, value, value2, r) ==
    /\ cls = "RegistrationForm"
    /\ formErrors' = r.errors
    /\ formData' = IF op = "validate" THEN data ELSE formData
    /\ last' = CallRecord(op, data, field, value, value2, r)
    /\ ncalls' = ncalls + 1
    /\ UNCHANGED <<cls, errors, threads, validators, web>>

DoValidateRegistration(data) ==
    ValidatorCall("validate_registration", data, "", Absent, Absent,
                  validate_registration(errors, data))
DoValidateName(f, v) ==
    ValidatorCall("validate_name", NoData, f, v, Absent, validate_name(errors, f, v))
DoValidateEmail(v) ==
    ValidatorCall("validate_email", NoData, "email", v, Absent, validate_email(errors, v))
DoValidatePassword(v) ==
    ValidatorCall("validate_password", NoData, "password", v, Absent,
                  validate_password(errors, v))
DoValidatePasswordMatch(pw, cp) ==
    ValidatorCall("validate_password_match", NoData, "confirm_password", cp, pw,
                  validate_password_match(errors, pw, cp))
DoFormValidate(data) ==
    FormCall("validate", data, "", Absent, Absent, Form_validate(formErrors, data))
DoFormValidateUsername(v) ==
    FormCall("validate_username", NoData, "username", v, Absent,
             Form_validate_username(formErrors, v))
DoFormValidateEmail(v) ==
    FormCall("validate_email", NoData, "email", v, Absent,
             Form_validate_email(formErrors, v))
DoFormValidatePassword(v) ==
    FormCall("validate_password", NoData, "password", v, Absent,
             Form_validate_password(formErrors, v))
DoFormValidatePasswordConfirmation(pw, cp) ==
    FormCall("validate_password_confirmation", NoData, "confirm_password", cp, pw,
             Form_validate_password_confirmation(formErrors, pw, cp))
DoFormValidateAge(v) ==
    FormCall("validate_age", NoData, "age", v, Absent, Form_validate_age(formErrors, v))
DoFormValidatePhone(v) ==
    FormCall("validate_phone", NoData, "phone", v, Absent,
             Form_validate_phone(formErrors, v))

\* ---- Spec: an instance reused for up to MaxCalls calls
CallValidateRegistration ==
    /\ ncalls < MaxCalls
    /\ \E fn \in FirstNameVals, ln \in LastNameVals, em \in EmailVals,
          pw \in PasswordVals, cp \in ConfirmVals :
           DoValidateRegistration(RegistrationData(fn, ln, em, pw, cp))

CallValidateName ==
    /\ ncalls < MaxCalls
    /\ \/ \E v \in Given(FirstNameVals) : DoValidateName("first_name", v)
       \/ \E v \in Given(LastNameVals) : DoValidateName("last_name", v)

CallValidateEmail ==
    /\ ncalls < MaxCalls
    /\ \E v \in Given(EmailVals) : DoValidateEmail(v)

CallValidatePassword ==
    /\ ncalls < MaxCalls
    /\ \E v \in Given(PasswordVals) : DoValidatePassword(v)

CallValidatePasswordMatch ==
    /\ ncalls < MaxCalls
    /\ \E pw \in {Str(<<"a","b","c">>)}, cp \in Given(ConfirmVals) :
           DoValidatePasswordMatch(pw, cp)

CallFormValidate ==
    /\ ncalls < MaxCalls
    /\ \E un \in UsernameVals, em \in EmailVals, pw \in PasswordVals,
          cp \in ConfirmVals, ag \in AgeVals, ph \in PhoneVals :
           DoFormValidate(FormInput(un, em, pw, cp, ag, ph))

CallFormValidateUsername ==
    /\ ncalls < MaxCalls
    /\ \E v \in Given(UsernameVals) : DoFormValidateUsername(v)

CallFormValidateEmail ==
    /\ ncalls < MaxCalls
    /\ \E v \in Given(EmailVals) : DoFormValidateEmail(v)

CallFormValidatePassword ==
    /\ ncalls < MaxCalls
    /\ \E v \in Given(PasswordVals) : DoFormValidatePassword(v)

CallFormValidatePasswordConfirmation ==
    /\ ncalls < MaxCalls
    /\ \E pw \in {Str(<<"a","b","c">>)}, cp \in Given(ConfirmVals) :
           DoFormValidatePasswordConfirmation(pw, cp)

CallFormValidateAge ==
    /\ ncalls < MaxCalls
    /\ \E v \in Given(AgeVals) \cup {None} : DoFormValidateAge(v)

CallFormValidatePhone ==
    /\ ncalls < MaxCalls
    /\ \E v \in Given(PhoneVals) \cup {None} : DoFormValidatePhone(v)

NewInstance == \E c \in {"RegistrationValidator", "RegistrationForm"} : Construct(c)

Next ==
    \/ NewInstance
    \/ CallValidateRegistration
    \/ CallValidateName
    \/ CallValidateEmail
    \/ CallValidatePassword
    \/ CallValidatePasswordMatch
    \/ CallFormValidate
    \/ CallFormValidateUsername
    \/ CallFormValidateEmail
    \/ CallFormValidatePassword
    \/ CallFormValidatePasswordConfirmation
    \/ CallFormValidateAge
    \/ CallFormValidatePhone

Spec == Init /\ [][Next]_vars

\* ======================================================================
\* SpecFresh: one call on a freshly constructed instance, on inputs
\* enumerated up to MaxLen free characters
\* ======================================================================
\* a fixed head p, a free core over alphabet A, a fixed tail x
Framed(heads, A, tails) ==
    {p \o c \o x : p \in heads, c \in StrsUpTo(A, MaxLen), x \in tails}

NameInputs ==
    Framed({<<>>, <<"A","l">>, Rep("a", NAME_MAX_LENGTH - 1), Rep("a", NAME_MAX_LENGTH)},
           {"a", " ", "-", "'", "1", "\n"}, {<<>>})

\* heads of n characters: all four classes, or one class missing
PasswordHeads(n) ==
    {h \o Rep(c, n - 3) : h \in {<<"A","b","1">>, <<"A","b","@">>, <<"b","1","@">>},
                          c \in {"a"}}
      \cup {<<"A","1","@">> \o Rep("A", n - 3), <<"A","b","1","@">> \o Rep("a", n - 4)}
PasswordInputs ==
    Framed({<<>>} \cup PasswordHeads(PASSWORD_MIN - 1) \cup PasswordHeads(PASSWORD_MIN)
                  \cup PasswordHeads(PASSWORD_MAX - 1) \cup PasswordHeads(PASSWORD_MAX),
           {"a", "A", "1", "@", " ", "^", "\n"}, {<<>>})

EmailInputs ==
    Framed({<<>>, <<"a">>, <<"a","@","b",".","c">>,
            Rep("a", EMAIL_MAX_LENGTH - 6), Rep("a", EMAIL_MAX_LENGTH - 5)},
           {"a", "@", ".", " ", "\n"},
           {<<>>, <<".","c">>, <<"@","b",".","c">>})

UsernameInputs ==
    Framed({<<>>, <<"a","b">>, Rep("a", USERNAME_MAX - 1), Rep("a", USERNAME_MAX)},
           {"a", "A", "1", "_", " ", "-", "\n"}, {<<>>})

FormEmailInputs ==
    Framed({<<>>, <<"a">>, <<"a","@","b",".","c","d">>},
           {"a", "1", "@", ".", " ", "\n"},
           {<<>>, <<".","c","d">>, <<"@","b",".","c","d">>, <<"a","@","b",".","c","d">>})

\* values of any type for a full validation: a number, zero, null, a missing
\* key, or a string the field's rule accepts
Typed(good) == {Int_(5), Int_(0), None, Absent, Str(good)}
GoodName  == <<"A","l">>
GoodEmail == <<"a","@","b",".","c","o">>
GoodPhone == <<"5","5","5","-","1","2","3","4","5","6">>

FirstValidateRegistration ==
    /\ ncalls = 0
    /\ \E fn \in Typed(GoodName), ln \in Typed(GoodName), em \in Typed(GoodEmail),
          pw \in Typed(GoodPassword), cp \in Typed(GoodPassword) :
           DoValidateRegistration(RegistrationData(fn, ln, em, pw, cp))

FirstFormValidate ==
    /\ ncalls = 0
    /\ \E un \in Typed(<<"a","b","c">>),
          em \in {Int_(5), None, Str(GoodEmail)},
          pw \in {Int_(5), Int_(0), Str(GoodPassword)},
          cp \in {Int_(5), Absent, Str(GoodPassword)},
          ag \in {Int_(5), None, Str(<<"a","b","c">>), Str(<<"2","0">>)},
          ph \in {Int_(5), None, Str(GoodPhone)} :
           DoFormValidate(FormInput(un, em, pw, cp, ag, ph))

FirstValidateName ==
    /\ ncalls = 0
    /\ \E f \in {"first_name", "last_name"}, s \in NameInputs : DoValidateName(f, Str(s))

FirstValidateEmail ==
    /\ ncalls = 0
    /\ \E s \in EmailInputs : DoValidateEmail(Str(s))

FirstValidatePassword ==
    /\ ncalls = 0
    /\ \E s \in PasswordInputs : DoValidatePassword(Str(s))

FirstFormValidateUsername ==
    /\ ncalls = 0
    /\ \E s \in UsernameInputs : DoFormValidateUsername(Str(s))

FirstFormValidateEmail ==
    /\ ncalls = 0
    /\ \E s \in FormEmailInputs : DoFormValidateEmail(Str(s))

\* ages: numbers around both bounds, and strings that do or do not parse
AgeInputs ==
    {Int_(n) : n \in {0 - 1, 0, MIN_AGE - 1, MIN_AGE, MAX_AGE, MAX_AGE + 1}}
      \cup {Str(s) : s \in Framed({<<>>, <<"1">>, <<"1","5">>},
                                   {"0", "1", "2", "3", "_", "-", "+", " ", "a", "."},
                                   {<<>>})}
      \cup {None}

FirstFormValidateAge ==
    /\ ncalls = 0
    /\ \E v \in AgeInputs : DoFormValidateAge(v)

PhoneInputs ==
    {Str(s) : s \in Framed({<<>>, Rep("1", PHONE_MIN - 2), Rep("1", PHONE_MIN - 1),
                            <<"(","5","5","5",")"," ","1","2","-">>},
                           {"1", " ", "-", "+", "(", ")", "a", ".", "\n"}, {<<>>})}
      \cup {None}

FirstFormValidatePhone ==
    /\ ncalls = 0
    /\ \E v \in PhoneInputs : DoFormValidatePhone(v)

\* a required field left out, empty or whitespace-only, or filled in
BlankVals == {Absent, Str(<<>>), Str(<<" ">>), Str(<<"\t", "\n">>)}
FirstValidateBlankFields ==
    /\ ncalls = 0
    /\ \E fn \in BlankVals \cup {Str(GoodName)}, ln \in BlankVals \cup {Str(GoodName)},
          em \in BlankVals \cup {Str(GoodEmail)},
          pw \in BlankVals \cup {Str(GoodPassword)},
          cp \in BlankVals \cup {Str(GoodPassword)} :
           DoValidateRegistration(RegistrationData(fn, ln, em, pw, cp))

NextFresh ==
    \/ NewInstance
    \/ FirstValidateBlankFields
    \/ FirstFormValidateAge
    \/ FirstFormValidatePhone
    \/ FirstValidateRegistration
    \/ FirstFormValidate
    \/ FirstValidateName
    \/ FirstValidateEmail
    \/ FirstValidatePassword
    \/ FirstFormValidateUsername
    \/ FirstFormValidateEmail

SpecFresh == Init /\ [][NextFresh]_vars

\* ======================================================================
\* SpecConc: callers whose validate_registration calls interleave.  A step
\* is one statement of validate_registration: the reset (line 183), one of
\* the five checks (lines 193-197; a check writes self.errors at most once),
\* or the return (lines 199-208).  out is what the call handed back: the
\* flag and the contents of self.errors at the return.
\* ======================================================================
GoodData == RegistrationData(Str(GoodName), Str(GoodName), Str(GoodEmail),
                             Str(GoodPassword), Str(GoodPassword))
BadData  == RegistrationData(Absent, Str(<<"A","1">>), Str(GoodEmail),
                             Str(<<"a","b","c">>), Str(GoodPassword))
ConcData == {GoodData, BadData}

CheckOrder == <<"first_name", "last_name", "email", "password", "confirm_password">>
CheckPcs == {CheckOrder[k] : k \in DOMAIN CheckOrder}
AfterCheck(f) ==
    LET k == CHOOSE j \in DOMAIN CheckOrder : CheckOrder[j] = f
    IN  IF k = Len(CheckOrder) THEN "return" ELSE CheckOrder[k + 1]

\* the check validate_registration runs for field f (lines 193-197)
FieldCheck(errs, f, data) ==
    CASE f \in {"first_name", "last_name"} -> validate_name(errs, f, Get(data, f, Str(<<>>)))
      [] f = "email"    -> validate_email(errs, Get(data, f, Str(<<>>)))
      [] f = "password" -> validate_password(errs, Get(data, f, Str(<<>>)))
      [] f = "confirm_password" ->
            validate_password_match(errs, Get(data, "password", Str(<<>>)),
                                    Get(data, f, Str(<<>>)))

\* the instance a validate_registration_data call by caller t constructs
OwnInstance(t) == t

\* mutant: validate_registration_data uses one module-level validator
InstanceOf_singleton(t) == 0

\* the instance caller t works on
InstanceOf(t) ==
    IF threads[t].call = "validate_registration_data" THEN OwnInstance(t) ELSE 0

\* between its reset and its return
InProgress(u) == threads[u].pc \in CheckPcs \cup {"return"}

\* caller t ran its reset or one of its checks: every other caller that is
\* in mid-call notes that the two calls overlapped
Touch(t) ==
    [u \in Threads |->
        IF u # t /\ InProgress(u) THEN [threads[u] EXCEPT !.overlapped = TRUE]
        ELSE threads[u]]

\* validate_registration_data(data): validator = RegistrationValidator(),
\* then validator.validate_registration(data)
BeginData(t) ==
    /\ threads[t].pc = "idle"
    /\ \E data \in ConcData :
          threads' = [threads EXCEPT ![t] =
                         [IdleThread EXCEPT !.call = "validate_registration_data",
                                            !.pc = "reset", !.data = data]]
    /\ validators' = [validators EXCEPT ![OwnInstance(t)] = EmptyDict]
    /\ UNCHANGED <<cls, errors, formErrors, formData, last, ncalls, web>>

\* shared.validate_registration(data) on the instance all callers reach
BeginShared(t) ==
    /\ threads[t].pc = "idle"
    /\ \E data \in ConcData :
          threads' = [threads EXCEPT ![t] =
                         [IdleThread EXCEPT !.call = "validate_registration",
                                            !.pc = "reset", !.data = data]]
    /\ UNCHANGED <<cls, errors, formErrors, formData, last, ncalls, validators, web>>

\* self.errors = {}
ResetStep(t) ==
    /\ threads[t].pc = "reset"
    /\ LET i == InstanceOf(t)
       IN  /\ validators' = [validators EXCEPT ![i] = ResetErrors(validators[i])]
           /\ threads' = [Touch(t) EXCEPT ![t].pc = CheckOrder[1], ![t].valid = <<>>]
    /\ UNCHANGED <<cls, errors, formErrors, formData, last, ncalls, web>>

\* <field>_valid = self.validate_...(...)
CheckStep(t) ==
    /\ threads[t].pc \in CheckPcs
    /\ LET i == InstanceOf(t)
           f == threads[t].pc
           r == FieldCheck(validators[i], f, threads[t].data)
       IN  /\ validators' = [validators EXCEPT ![i] = r.errors]
           /\ threads' = [Touch(t) EXCEPT ![t].pc = AfterCheck(f),
                                           ![t].valid = Append(@, r.ret)]
    /\ UNCHANGED <<cls, errors, formErrors, formData, last, ncalls, web>>

\* is_valid = (... and ...); return is_valid, self.errors
ReturnStep(t) ==
    /\ threads[t].pc = "return"
    /\ threads' = [threads EXCEPT
                      ![t].pc = "done",
                      ![t].out = Returned(\A k \in DOMAIN threads[t].valid : threads[t].valid[k],
                                          validators[InstanceOf(t)])]
    /\ UNCHANGED <<cls, errors, formErrors, formData, last, ncalls, validators, web>>

NextConc ==
    \/ \E t \in Threads : BeginData(t)
    \/ \E t \in Threads : BeginShared(t)
    \/ \E t \in Threads : ResetStep(t)
    \/ \E t \in Threads : CheckStep(t)
    \/ \E t \in Threads : ReturnStep(t)

InitConc == Init /\ cls = "RegistrationValidator"
SpecConc == InitConc /\ [][NextConc]_vars

\* ======================================================================
\* SpecWeb: sanitize_input, and the /api/register handler of
\* example_flask_app.py serving one request at a time
\* ======================================================================
HTTP_OK == 200
HTTP_CREATED == 201
HTTP_BAD_REQUEST == 400
HTTP_SERVER_ERROR == 500

\* mutant: every field goes through sanitize_input, the passwords too
sanitized_data_all(data) ==
    RegistrationData(Str(sanitize_input(Get(data, "first_name", Str(<<>>))).text),
                     Str(sanitize_input(Get(data, "last_name", Str(<<>>))).text),
                     Str(sanitize_input(Get(data, "email", Str(<<>>))).text),
                     Str(sanitize_input(Get(data, "password", Str(<<>>))).text),
                     Str(sanitize_input(Get(data, "confirm_password", Str(<<>>))).text))

\* sanitized_data = {...} (lines 69-75)
sanitized_data(data) ==
    RegistrationData(Str(sanitize_input(Get(data, "first_name", Str(<<>>))).text),
                     Str(sanitize_input(Get(data, "last_name", Str(<<>>))).text),
                     Str(sanitize_input(Get(data, "email", Str(<<>>))).text),
                     Get(data, "password", Str(<<>>)),
                     Get(data, "confirm_password", Str(<<>>)))

\* the exception, if any, that building sanitized_data raises
SanitizeRaises(data) ==
    LET fn == sanitize_input(Get(data, "first_name", Str(<<>>)))
        ln == sanitize_input(Get(data, "last_name", Str(<<>>)))
        em == sanitize_input(Get(data, "email", Str(<<>>)))
    IN  IF fn.exc # "none" THEN fn.exc
        ELSE IF ln.exc # "none" THEN ln.exc
        ELSE em.exc

\* mutant: the success body hands the whole payload back
SuccessData_whole_payload(payload) == payload

\* 'data': {first_name, last_name, email} of the success body (lines 98-103)
SuccessData(payload) ==
    RegistrationData(payload["first_name"], payload["last_name"], payload["email"],
                     Absent, Absent)

\* register(): json is "none" when request.get_json() gave None, "object"
\* when it gave the dict `data`.  An exception leaving the handler is
\* answered by the 500 handler.
register(json, data) ==
    LET asked == [NoRequest EXCEPT !.op = "register", !.json = json, !.data = data]
    IN  IF json = "none" \/ data = NoData                      \* if not data
        THEN [asked EXCEPT !.status = HTTP_BAD_REQUEST, !.message = "No data provided",
                           !.errors = <<[k |-> "general",
                                         m |-> Msg("Request must include JSON data")]>>]
        ELSE IF SanitizeRaises(data) # "none"
        THEN [asked EXCEPT !.status = HTTP_SERVER_ERROR, !.exc = SanitizeRaises(data),
                           !.message = "Internal server error"]
        ELSE LET payload == sanitized_data(data)
                 r == validate_registration_data(payload)
             IN  IF r.exc # "none"
                 THEN [asked EXCEPT !.payload = payload, !.status = HTTP_SERVER_ERROR,
                                    !.exc = r.exc, !.message = "Internal server error"]
                 ELSE IF ~r.ret
                 THEN [asked EXCEPT !.payload = payload, !.status = HTTP_BAD_REQUEST,
                                    !.message = "Validation failed", !.errors = r.errors]
                 ELSE [asked EXCEPT !.payload = payload, !.status = HTTP_CREATED,
                                    !.success = TRUE,
                                    !.message = "Registration successful",
                                    !.echo = SuccessData(payload)]

\* mutant: the probe also takes confirm_password for a name
ProbedFields_with_confirm == {"email", "password", "first_name", "last_name",
                              "confirm_password"}

\* the fields validate_field routes to a rule (lines 134-139)
ProbedFields == {"email", "password", "first_name", "last_name"}

\* validate_field(): the probe request is {field, value}; value is Absent
\* when the key is missing.  The answer's status is 200 unless stated.
validate_field(json, field, value) ==
    LET asked == [NoRequest EXCEPT !.op = "validate_field", !.json = json,
                                   !.field = field, !.value = value]
    IN  IF json = "none" \/ ~field.present \/ value.kind = "absent"
        THEN [asked EXCEPT !.status = HTTP_BAD_REQUEST,
                           !.error = Msg("Missing field or value")]
        ELSE IF field.name \notin ProbedFields
        THEN [asked EXCEPT !.status = HTTP_BAD_REQUEST, !.error = Msg("Unknown field")]
        ELSE LET r == CASE field.name = "email"    -> validate_email(EmptyDict, value)
                        [] field.name = "password" -> validate_password(EmptyDict, value)
                        [] OTHER -> validate_name(EmptyDict, field.name, value)
             IN  IF r.exc # "none"
                 THEN [asked EXCEPT !.status = HTTP_SERVER_ERROR, !.exc = r.exc,
                                    !.message = "Internal server error"]
                 ELSE IF r.ret
                 THEN [asked EXCEPT !.status = HTTP_OK, !.valid = TRUE]
                 ELSE [asked EXCEPT !.status = HTTP_OK,
                                    !.error = IF field.name \in Keys(r.errors)
                                              THEN DictGet(r.errors, field.name)
                                              ELSE Msg("Validation failed")]

ProbeFieldKeys ==
    {NoKey} \cup {FieldKey(f) : f \in ProbedFields \cup {"confirm_password", "username"}}
ProbeValues ==
    {Absent, None, Int_(0), Int_(5)}
      \cup {Str(s) : s \in {<<>>, <<" ">>, <<"A">>, GoodName, <<"A", "1">>, GoodEmail,
                             <<"a", "@", "b">>, GoodPassword, <<"a", "b", "c">>}}

ValidateFieldRequest ==
    /\ web.op = "none"
    /\ \/ web' = validate_field("none", NoKey, Absent)
       \/ \E field \in ProbeFieldKeys, value \in ProbeValues :
             web' = validate_field("object", field, value)
    /\ UNCHANGED <<cls, errors, formErrors, formData, last, ncalls, threads, validators>>

SanitizeInputs ==
    {None, Int_(0), Int_(5)}
      \cup {Str(s) : s \in Framed({<<>>, <<"a", " ">>},
                                   {"a", " ", "\t", "\n", NUL, DEL, NBSP},
                                   {<<>>, <<"b">>, <<" ", "b">>})}

SpacedPassword == GoodPassword \o <<" ">>
TabbedPassword == <<"\t">> \o GoodPassword
RegisterFirstNames == {Absent, None, Int_(5), Str(<<" ", "A", "l", "\t">>), Str(<<"A">>),
                       Str(GoodName)}
RegisterLastNames  == {Str(GoodName), Str(<<"A", NUL, "l">>)}
RegisterEmails     == {Str(GoodEmail), Str(<<" ">> \o GoodEmail \o <<"\n">>),
                       Str(<<"a", " ">> \o GoodEmail)}
OtherGoodPassword == GoodPassword \o <<"#">>
RegisterPasswords  == {Absent, Int_(5), Str(GoodPassword), Str(OtherGoodPassword),
                       Str(SpacedPassword), Str(TabbedPassword), Str(<<"a", "b", "c">>)}
RegisterConfirms   == {None, Str(GoodPassword), Str(OtherGoodPassword),
                       Str(SpacedPassword), Str(TabbedPassword)}

SanitizeInputCall ==
    /\ web.op = "none"
    /\ \E v \in SanitizeInputs :
          LET r == sanitize_input(v)
          IN  web' = [NoRequest EXCEPT !.op = "sanitize_input", !.value = v,
                                       !.text = r.text, !.exc = r.exc]
    /\ UNCHANGED <<cls, errors, formErrors, formData, last, ncalls, threads, validators>>

RegisterNoData ==
    /\ web.op = "none"
    /\ \E json \in {"none", "object"} : web' = register(json, NoData)
    /\ UNCHANGED <<cls, errors, formErrors, formData, last, ncalls, threads, validators>>

RegisterRequest ==
    /\ web.op = "none"
    /\ \E fn \in RegisterFirstNames, ln \in RegisterLastNames, em \in RegisterEmails,
          pw \in RegisterPasswords, cp \in RegisterConfirms :
          web' = register("object", RegistrationData(fn, ln, em, pw, cp))
    /\ UNCHANGED <<cls, errors, formErrors, formData, last, ncalls, threads, validators>>

\* the answer is sent; the next request can come
NextRequest ==
    /\ web.op # "none"
    /\ web' = NoRequest
    /\ UNCHANGED <<cls, errors, formErrors, formData, last, ncalls, threads, validators>>

NextWeb ==
    \/ SanitizeInputCall
    \/ ValidateFieldRequest
    \/ RegisterNoData
    \/ RegisterRequest
    \/ NextRequest

SpecWeb == InitConc /\ [][NextWeb]_vars

\* ======================================================================
\* Properties
\* ======================================================================
IsValidator == cls = "RegistrationValidator"
IsForm      == cls = "RegistrationForm"
FullValidation  == IsValidator /\ last.op = "validate_registration"
FormValidation  == IsForm /\ last.op = "validate"
StringsOnly(data) == \A f \in AllFields : data[f].kind \in {"str", "absent"}
Field(data, f) == Get(data, f, Str(<<>>))

\* C1: for an input map of strings (or missing keys) validate_registration
\* returns, and valid is true exactly when the returned error map is empty;
\* RegistrationForm.validate returns True exactly when get_errors() is empty
\* afterwards.
C1_ValidIffNoErrors ==
    /\ (FullValidation /\ StringsOnly(last.data)) =>
          /\ last.exc = "none"
          /\ last.ret <=> (last.errs = EmptyDict)
          /\ errors = last.errs
    /\ (FormValidation /\ StringsOnly(last.data)) =>
          /\ last.exc = "none"
          /\ last.ret <=> (formErrors = <<>>)

\* a reused instance passes a full validation and holds no error
C1_Witness ==
    /\ FullValidation /\ ncalls >= 2 /\ last.ret /\ errors = EmptyDict

\* ---- C2
\* the field's own rule, run alone on a fresh accumulator
ValidatorRuleAccepts(f, data) ==
    CASE f \in {"first_name", "last_name"} -> validate_name(EmptyDict, f, Field(data, f)).ret
      [] f = "email"    -> validate_email(EmptyDict, Field(data, f)).ret
      [] f = "password" -> validate_password(EmptyDict, Field(data, f)).ret
      [] f = "confirm_password" ->
            validate_password_match(EmptyDict, Field(data, "password"), Field(data, f)).ret
FormRuleAccepts(f, data) ==
    CASE f = "username" -> Form_validate_username(<<>>, Field(data, f)).ret
      [] f = "email"    -> Form_validate_email(<<>>, Field(data, f)).ret
      [] f = "password" -> Form_validate_password(<<>>, Field(data, f)).ret
      [] f = "confirm_password" ->
            Form_validate_password_confirmation(<<>>, Field(data, "password"),
                                                Field(data, f)).ret
      [] f = "age"      -> Form_validate_age(<<>>, Get(data, f, None)).ret
      [] f = "phone"    -> Form_validate_phone(<<>>, Get(data, f, None)).ret
\* the field a RegistrationForm message is about
FormMessageField(m) ==
    CASE m.text \in {"Username is required",
                     "Username must be 3-20 characters long and contain only letters, numbers, and underscores"}
            -> "username"
      [] m.text \in {"Email is required", "Invalid email format"} -> "email"
      [] m.text \in {"Password confirmation is required", "Passwords do not match"}
            -> "confirm_password"
      [] m.text \in {"Age must be a valid number",
                     "You must be at least 13 years old to register",
                     "Please enter a valid age"} -> "age"
      [] m.text = "Invalid phone number format" -> "phone"
      [] OTHER -> "password"

\* C2: no short-circuiting.  After a full validation of a map of strings the
\* fields reported in the errors are exactly the fields whose own rule
\* rejects its value (five fields for validate_registration, six for
\* RegistrationForm.validate, one message per failing field).
C2_AllFieldsChecked ==
    /\ (FullValidation /\ StringsOnly(last.data)) =>
          Keys(last.errs) = {f \in ValidatorFields : ~ValidatorRuleAccepts(f, last.data)}
    /\ (FormValidation /\ StringsOnly(last.data)) =>
          /\ {FormMessageField(formErrors[i]) : i \in DOMAIN formErrors}
               = {f \in FormFields : ~FormRuleAccepts(f, last.data)}
          /\ Len(formErrors) = Cardinality({f \in FormFields : ~FormRuleAccepts(f, last.data)})

\* all five fields of one validate_registration call fail
C2_Witness ==
    /\ FullValidation /\ Keys(last.errs) = ValidatorFields

\* C3 (as claimed): a full validation of a map of strings, numbers and nulls
\* never raises; it returns an outcome.
C3_NeverRaises ==
    (FullValidation \/ FormValidation) => last.exc = "none"

\* ---- C4
FieldCall(op) == last.op = op /\ last.value.kind = "str"
Count(s, c) == Cardinality({k \in 1..Len(s) : s[k] = c})

PasswordPolicy(s) ==
    /\ Len(s) >= 8 /\ Len(s) <= 128
    /\ Search(s, Upper) /\ Search(s, Lower) /\ Search(s, Digit)
    /\ Search(s, {"@","$","!","%","*","?","&","#"})

\* C4 (as claimed): RegistrationValidator.validate_password accepts a password
\* exactly when its length is 8..128 and it holds an uppercase letter, a
\* lowercase letter, a digit and one of @$!%*?&#, whatever its other characters.
C4_PasswordPolicy ==
    (IsValidator /\ FieldCall("validate_password")) =>
        (last.ret <=> PasswordPolicy(last.value.s))

\* ---- C5
PasswordChecked ==
    \/ last.op \in {"validate_registration", "validate", "validate_password"}
PasswordGiven ==
    IF last.op = "validate_password" THEN last.value ELSE Field(last.data, "password")
ViolatedRules(s, specials, maxlen) ==
    (IF Len(s) < 8 \/ Len(s) > maxlen THEN {"length"} ELSE {})
      \cup (IF Search(s, Upper) THEN {} ELSE {"uppercase"})
      \cup (IF Search(s, Lower) THEN {} ELSE {"lowercase"})
      \cup (IF Search(s, Digit) THEN {} ELSE {"digit"})
      \cup (IF Search(s, specials) THEN {} ELSE {"special"})
\* the rules a message tells the caller about
RulesNamed(m) ==
    CASE m.text \in {"Password must be at least 8 characters long",
                     "Password is too long (max 128 characters)"} -> {"length"}
      [] m = PasswordCompositionMsg -> {"uppercase", "lowercase", "digit", "special"}
      [] m.text = "Password must contain at least one uppercase letter" -> {"uppercase"}
      [] m.text = "Password must contain at least one lowercase letter" -> {"lowercase"}
      [] m.text = "Password must contain at least one number" -> {"digit"}
      [] m.text = "Password must contain at least one special character" -> {"special"}
      [] OTHER -> {}
ReportedRules ==
    IF IsValidator
    THEN UNION {RulesNamed(errors[i].m) : i \in {j \in DOMAIN errors : errors[j].k = "password"}}
    ELSE UNION {RulesNamed(formErrors[i]) : i \in DOMAIN formErrors}

\* C5 (as claimed): after one validation of a non-empty password every rule the
\* password violates (length, uppercase, lowercase, digit, special character)
\* is reported by an error of that call.
C5_EveryViolatedRuleReported ==
    (PasswordChecked /\ last.exc = "none" /\ PasswordGiven.kind = "str"
       /\ PasswordGiven.s # <<>> /\ ~last.ret) =>
        IF IsValidator
        THEN ViolatedRules(PasswordGiven.s, PasswordSpecials, 128) \subseteq ReportedRules
        ELSE ViolatedRules(PasswordGiven.s, FormSpecials, 128 * 128) \subseteq ReportedRules

\* ---- C6
ConfirmChecked ==
    \/ FullValidation \/ FormValidation
    \/ IsValidator /\ last.op = "validate_password_match"
    \/ IsForm /\ last.op = "validate_password_confirmation"
IsFieldLevel == last.op \notin {"validate_registration", "validate"}
ConfirmPassword == IF IsFieldLevel THEN last.value2 ELSE Field(last.data, "password")
ConfirmValue    == IF IsFieldLevel THEN last.value  ELSE Field(last.data, "confirm_password")
\* what the call said about confirm_password
ConfirmOutcome ==
    IF IsFieldLevel /\ last.ret THEN "none"
    ELSE IF IsValidator
    THEN IF "confirm_password" \notin Keys(errors) THEN "none"
         ELSE IF DictGet(errors, "confirm_password") = RequiredMsg("confirm_password")
         THEN "required"
         ELSE IF DictGet(errors, "confirm_password").text = "Passwords do not match"
         THEN "mismatch" ELSE "other"
    ELSE LET about == {i \in DOMAIN formErrors :
                          FormMessageField(formErrors[i]) = "confirm_password"}
         IN  IF IsFieldLevel
             THEN IF formErrors[Len(formErrors)].text = "Password confirmation is required"
                  THEN "required"
                  ELSE IF formErrors[Len(formErrors)].text = "Passwords do not match"
                  THEN "mismatch" ELSE "other"
             ELSE IF about = {} THEN "none"
             ELSE IF \A i \in about : formErrors[i].text = "Password confirmation is required"
             THEN "required"
             ELSE IF \A i \in about : formErrors[i].text = "Passwords do not match"
             THEN "mismatch" ELSE "other"
\* what the two values alone call for; blankIsEmpty: a whitespace-only
\* confirmation counts as empty
ConfirmExpected(pw, cp, blankIsEmpty) ==
    IF cp.s = <<>> \/ (blankIsEmpty /\ Strip(cp.s) = <<>>) THEN "required"
    ELSE IF cp # pw THEN "mismatch"
    ELSE "none"
StringPair == ConfirmPassword.kind = "str" /\ ConfirmValue.kind = "str"

\* C6 (as amended): the confirm_password check depends only on the two values,
\* never on whether the password passed its rule.  RegistrationValidator:
\* Required when the confirmation is empty or whitespace-only, 'do not match'
\* when it is not blank and differs from the password, no error when it is not
\* blank and equal.  RegistrationForm: Required only when it is the empty
\* string; a whitespace-only confirmation is compared like any other.
C6_ConfirmDependsOnValuesOnly ==
    (ConfirmChecked /\ StringPair /\ last.exc = "none") =>
        ConfirmOutcome = ConfirmExpected(ConfirmPassword, ConfirmValue, IsValidator)

\* C6 (as claimed): in both classes an empty or blank confirmation gets the
\* Required error.
C6_BlankConfirmIsRequired ==
    (ConfirmChecked /\ StringPair /\ last.exc = "none") =>
        ConfirmOutcome = ConfirmExpected(ConfirmPassword, ConfirmValue, TRUE)

\* a full validation rejects the password and still finds the equal
\* confirmation in order
C6_Witness ==
    /\ FullValidation
    /\ "password" \in Keys(errors)
    /\ "confirm_password" \notin Keys(errors)
    /\ Field(last.data, "confirm_password") = Field(last.data, "password")

\* ---- C7
EmailShape(s) ==
    /\ Strip(s) # <<>>
    /\ Count(s, "@") = 1
    /\ s[1] # "@"
    /\ \A k \in 1..Len(s) : s[k] \notin Whitespace
    /\ \E j \in 1..Len(s) :
          /\ s[j] = "."
          /\ j < Len(s)
          /\ \E i \in 1..(j - 2) : s[i] = "@"
    /\ Len(s) <= 254
\* local@domain with no dot after the '@' and nothing else wrong
NoTld(s) ==
    /\ Count(s, "@") = 1 /\ s[1] # "@" /\ s[Len(s)] # "@"
    /\ \A k \in 1..Len(s) : s[k] \notin Whitespace
    /\ \A k \in 1..Len(s) : s[k] = "." => \E i \in (k + 1)..Len(s) : s[i] = "@"

\* C7 (as claimed): RegistrationValidator.validate_email accepts exactly the
\* non-blank strings local@domain.tld with one '@', a non-empty local part, a
\* dot in the domain with text on both sides, no whitespace anywhere and at
\* most 254 characters; 'user@domain' gets the invalid-format message.
C7_EmailShape ==
    (IsValidator /\ FieldCall("validate_email")) =>
        /\ last.ret <=> EmailShape(last.value.s)
        /\ (last.value.s # <<>> /\ NoTld(last.value.s)) =>
              (~last.ret /\ DictGet(errors, "email").text = "Please enter a valid email address")

\* ---- C8
AtPositions(s) == {k \in 1..Len(s) : s[k] = "@"}
MalformedEmail(s) ==
    \/ AtPositions(s) = {}                                          \* no '@'
    \/ s[1] = "@"                                                   \* empty local part
    \/ s[Len(s)] = "@"                                              \* empty domain
    \/ \E a \in AtPositions(s) : \A k \in (a + 1)..Len(s) : s[k] # "."  \* no TLD
    \/ \E k \in 1..(Len(s) - 1) : s[k] \in Whitespace               \* embedded whitespace
    \/ \E a \in AtPositions(s) :
          \E k \in 1..(a - 2) : s[k] = "." /\ s[k + 1] = "."        \* 'user..name@'

\* C8 (as claimed): RegistrationForm.validate_email returns False and appends an
\* error for every address with no '@', an empty local part, an empty domain,
\* a domain without a TLD, embedded whitespace, or consecutive dots in the
\* local part.
C8_MalformedEmailRejected ==
    (IsForm /\ FieldCall("validate_email") /\ last.value.s # <<>>
       /\ MalformedEmail(last.value.s)) =>
        (~last.ret /\ Len(formErrors) = 1)

\* ---- C9
NameAccepted(s) ==
    /\ Strip(s) # <<>>
    /\ Len(Strip(s)) >= 2
    /\ Len(s) <= 50
    /\ \A k \in 1..Len(s) : s[k] \in Lower \cup Upper \cup {" ", "-", "'"}

\* C9 (as claimed): validate_name accepts exactly the non-blank values of
\* trimmed length >= 2 and length <= 50 made of letters, spaces, hyphens and
\* apostrophes; a blank value gets the Required error, a too short or too long
\* one a length error, any other character the format error.
C9_NameRule ==
    (IsValidator /\ FieldCall("validate_name")) =>
        LET s == last.value.s
            f == last.field
        IN  /\ last.ret <=> NameAccepted(s)
            /\ ~last.ret =>
                  DictGet(errors, f) =
                     IF Strip(s) = <<>> THEN RequiredMsg(f)
                     ELSE IF Len(Strip(s)) < 2 THEN TooShortMsg(f)
                     ELSE IF Len(s) > 50 THEN TooLongMsg(f)
                     ELSE BadCharsMsg(f)

\* ---- C10
UsernameAccepted(s) ==
    /\ Len(s) >= 3 /\ Len(s) <= 20
    /\ \A k \in 1..Len(s) : s[k] \in Lower \cup Upper \cup Digit \cup {"_"}

\* C10 (as claimed): RegistrationForm.validate_username accepts exactly the
\* strings of 3 to 20 ASCII letters, digits and underscores; the empty username
\* gets the 'required' error, every other rejected one the '3-20 characters'
\* error.
C10_UsernameRule ==
    (IsForm /\ FieldCall("validate_username")) =>
        LET s == last.value.s
        IN  /\ last.ret <=> UsernameAccepted(s)
            /\ ~last.ret =>
                  formErrors = <<IF s = <<>> THEN Msg("Username is required")
                                 ELSE Msg("Username must be 3-20 characters long and contain only letters, numbers, and underscores")>>

\* ---- C11
AgeCall == IsForm /\ last.op = "validate_age" /\ ncalls = 1
\* the integer a value stands for, if any
AgeParsed(v) ==
    IF v.kind = "int" THEN [ok |-> TRUE, n |-> v.n] ELSE ParseInt(v.s)

\* C11: RegistrationForm.validate_age on None, an int or a str.  None is
\* accepted with no error; a value that parses as the integer n is accepted
\* exactly when 13 <= n <= 150, a smaller n gets the 'at least 13' error and a
\* larger n the 'valid age' error (12 and 151 refused, 13 and 150 accepted); a
\* value that does not parse gets the 'valid number' error.  A refusal appends
\* exactly one message.
C11_AgeOptionalAndRanged ==
    AgeCall =>
        /\ last.exc = "none"
        /\ IF last.value.kind = "none" THEN last.ret /\ formErrors = <<>>
           ELSE LET p == AgeParsed(last.value)
                IN  /\ last.ret <=> (p.ok /\ 13 <= p.n /\ p.n <= 150)
                    /\ last.ret => formErrors = <<>>
                    /\ ~p.ok => formErrors = <<Msg("Age must be a valid number")>>
                    /\ (p.ok /\ p.n < 13) =>
                          formErrors = <<Msg("You must be at least 13 years old to register")>>
                    /\ (p.ok /\ p.n > 150) => formErrors = <<Msg("Please enter a valid age")>>
        /\ last.value \in {Int_(12), Int_(151), Str(<<"1","2">>), Str(<<"1","5","1">>)}
              => ~last.ret
        /\ last.value \in {Int_(13), Int_(150), Str(<<"1","3">>), Str(<<"1","5","0">>)}
              => last.ret

\* the upper bound itself, given as text, is accepted
C11_Witness ==
    AgeCall /\ last.value = Str(<<"1","5","0">>) /\ last.ret /\ formErrors = <<>>

\* ---- C12
PhoneAccepted(s) ==
    /\ Len(s) >= 10
    /\ \A k \in 1..Len(s) : s[k] \in Digit \cup Whitespace \cup {"-", "+", "(", ")"}

\* C12: RegistrationForm.validate_phone on None or a str.  None and the empty
\* string are accepted with no error; a non-empty string is accepted exactly
\* when it has at least 10 characters, each a digit, whitespace, '-', '+', '('
\* or ')', and otherwise refused with the one 'Invalid phone number format'
\* error.
C12_PhoneOptionalAndShaped ==
    (IsForm /\ last.op = "validate_phone" /\ ncalls = 1
       /\ last.value.kind \in {"none", "str"}) =>
        /\ last.exc = "none"
        /\ last.ret <=> (last.value.kind = "none" \/ last.value.s = <<>>
                          \/ PhoneAccepted(last.value.s))
        /\ formErrors = IF last.ret THEN <<>> ELSE <<Msg("Invalid phone number format")>>

\* a ten-character phone number ending in a newline is accepted
C12_Witness ==
    /\ IsForm /\ last.op = "validate_phone" /\ last.ret
    /\ last.value.kind = "str" /\ Len(last.value.s) = 10 /\ last.value.s[10] = "\n"

\* ---- C13
\* absent from the map, empty, or whitespace-only
Blank(data, f) ==
    \/ data[f].kind = "absent"
    \/ data[f].kind = "str" /\ \A k \in 1..Len(data[f].s) : data[f].s[k] \in Whitespace

\* C13: after validate_registration on a map of strings, every required field
\* that is absent, empty or whitespace-only has the '<Field> is required'
\* error, whatever the other fields hold; when all five are blank the call
\* returns valid = False and an error map of exactly five entries, one per
\* required field.
C13_BlankFieldsRequired ==
    (FullValidation /\ StringsOnly(last.data)) =>
        /\ \A f \in ValidatorFields :
              Blank(last.data, f) =>
                 /\ f \in Keys(last.errs)
                 /\ DictGet(last.errs, f) = RequiredMsg(f)
                 /\ ~last.ret
        /\ (\A f \in ValidatorFields : Blank(last.data, f)) =>
              /\ ~last.ret
              /\ Len(last.errs) = 5
              /\ Keys(last.errs) = ValidatorFields

\* all five fields blank in different ways: one left out, one whitespace-only
C13_Witness ==
    /\ FullValidation /\ Len(last.errs) = 5 /\ ~last.ret
    /\ last.data["first_name"] = Absent
    /\ last.data["password"] = Str(<<"\t", "\n">>)
    /\ \A f \in ValidatorFields : Blank(last.data, f)

\* ---- C14
\* C14: the outcome of a full validation of a map of strings is a function of
\* the map alone.  On an instance reused after any earlier calls,
\* validate_registration returns what it returns on a fresh instance for the
\* same map, and holds exactly those errors afterwards; the same for
\* RegistrationForm.validate and get_errors().
C14_OutcomeFunctionOfInput ==
    /\ (FullValidation /\ StringsOnly(last.data)) =>
          LET fresh == validate_registration(EmptyDict, last.data)
          IN  /\ last.exc = fresh.exc /\ last.ret = fresh.ret /\ last.errs = fresh.errors
              /\ errors = fresh.errors
    /\ (FormValidation /\ StringsOnly(last.data)) =>
          LET fresh == Form_validate(<<>>, last.data)
          IN  /\ last.exc = fresh.exc /\ last.ret = fresh.ret /\ last.errs = fresh.errors
              /\ formErrors = fresh.errors /\ formData = last.data

\* a reused RegistrationForm rejects a form with one error
C14_Witness ==
    /\ FormValidation /\ ncalls >= 2 /\ ~last.ret /\ Len(formErrors) = 1

\* ---- C15, C16
Finished(t) == threads[t].pc = "done"
\* what the call returns when nothing else runs
Alone(t) == validate_registration(EmptyDict, threads[t].data)
SameAsAlone(t) ==
    /\ threads[t].out.ret = Alone(t).ret
    /\ threads[t].out.errors = Alone(t).errors

\* C15: every validate_registration_data call, whatever other calls its
\* steps are interleaved with, returns exactly the outcome it returns when
\* run alone on its input: each call works on the validator it constructed.
C15_OwnValidatorIsolated ==
    \A t \in Threads :
        (Finished(t) /\ threads[t].call = "validate_registration_data") => SameAsAlone(t)

\* two validate_registration_data calls on different inputs overlapped and
\* both returned
C15_Witness ==
    /\ \A t \in Threads : threads[t].call = "validate_registration_data" => Finished(t)
    /\ \E t, u \in Threads :
          /\ threads[t].call = "validate_registration_data"
          /\ threads[u].call = "validate_registration_data"
          /\ threads[t].overlapped /\ threads[u].overlapped
          /\ threads[t].data = GoodData /\ threads[u].data = BadData
          /\ threads[t].out.ret /\ ~threads[u].out.ret

\* C16: sharing one RegistrationValidator between interleaved
\* validate_registration calls is unsafe.  A call on the shared instance can
\* return an outcome other than the one it returns alone (C16_Witness is such
\* a return), and it does so only when the reset or a check of another call
\* on the shared instance ran between this call's reset and its return.
C16_SharedWrongOnlyIfInterleaved ==
    \A t \in Threads :
        (Finished(t) /\ threads[t].call = "validate_registration" /\ ~SameAsAlone(t))
            => /\ threads[t].overlapped
               /\ \E u \in Threads \ {t} : threads[u].call = "validate_registration"

\* a call on the shared instance returns valid = True together with a map
\* holding the other call's errors
C16_Witness ==
    \E t \in Threads :
        /\ Finished(t) /\ threads[t].call = "validate_registration"
        /\ threads[t].data = GoodData
        /\ threads[t].out.ret
        /\ threads[t].out.errors # EmptyDict
        /\ Alone(t).errors = EmptyDict

\* ---- C17
ValidatorOrder == <<"first_name", "last_name", "email", "password", "confirm_password">>
FormOrder == <<"username", "email", "password", "confirm_password", "age", "phone">>
Rank(order, f) == CHOOSE k \in DOMAIN order : order[k] = f
\* the fields of seq, in seq's order, follow `order` with no field twice
InOrder(order, seq) ==
    \A i, j \in DOMAIN seq : i < j => Rank(order, seq[i]) < Rank(order, seq[j])

\* C17: the error map returned by validate_registration iterates its keys in
\* the order first_name, last_name, email, password, confirm_password (the
\* failing fields only, each once), and the error list of
\* RegistrationForm.validate lists the failing fields' messages in the order
\* username, email, password, confirm_password, age, phone.
C17_ErrorsInEvaluationOrder ==
    /\ (FullValidation /\ last.exc = "none") =>
          /\ InOrder(ValidatorOrder, [i \in DOMAIN last.errs |-> last.errs[i].k])
          /\ Keys(last.errs) \subseteq ValidatorFields
    /\ (FormValidation /\ last.exc = "none") =>
          InOrder(FormOrder, [i \in DOMAIN formErrors |-> FormMessageField(formErrors[i])])

\* all six fields of a RegistrationForm.validate call fail
C17_Witness ==
    /\ FormValidation /\ Len(formErrors) = 6
    /\ [i \in DOMAIN formErrors |-> FormMessageField(formErrors[i])] = FormOrder

\* ---- C18
SanitizeCall == web.op = "sanitize_input"
\* positions of s holding a character that is kept: neither control nor
\* whitespace
KeptAt(s) == {i \in 1..Len(s) : s[i] \notin Control \cup Whitespace}
\* the k-th smallest member of a set of positions
Nth(S, k) == CHOOSE i \in S : Cardinality({j \in S : j <= i}) = k
\* between two kept positions of the input there is whitespace that the
\* removal of control characters leaves standing
GapBetween(s, a, b) == \E m \in (a + 1)..(b - 1) : s[m] \in Whitespace \ Control

\* C18: for every input string sanitize_input returns the kept characters of
\* the input (neither control characters, code points below 0x20 and 0x7F,
\* nor whitespace) in their original order, two neighbours separated by
\* exactly one space when whitespace other than control characters stood
\* between them in the input and by nothing otherwise; so the result holds
\* no control character, no two adjacent whitespace characters and no
\* leading or trailing whitespace.  An empty or None input yields ''.
C18_SanitizeInput ==
    (SanitizeCall /\ web.value.kind \in {"str", "none"}) =>
        LET s   == web.value.s
            out == web.text
            K   == KeptAt(s)
            P   == {i \in 1..Len(out) : out[i] # " "}
        IN  /\ web.exc = "none"
            /\ (web.value.kind = "none" \/ s = <<>>) => out = <<>>
            /\ \A i \in 1..Len(out) : out[i] \notin Control
            /\ \A i \in 1..Len(out) : out[i] \in Whitespace => out[i] = " "
            /\ \A i \in 1..(Len(out) - 1) : ~(out[i] = " " /\ out[i + 1] = " ")
            /\ out # <<>> => (out[1] # " " /\ out[Len(out)] # " ")
            /\ Cardinality(P) = Cardinality(K)
            /\ \A k \in 1..Cardinality(K) : out[Nth(P, k)] = s[Nth(K, k)]
            /\ \A k \in 1..(Cardinality(K) - 1) :
                  (Nth(P, k + 1) = Nth(P, k) + 2)
                      <=> GapBetween(s, Nth(K, k), Nth(K, k + 1))

\* control characters dropped and a run of whitespace collapsed in one call
C18_Witness ==
    /\ SanitizeCall /\ web.value.kind = "str"
    /\ \E i \in 1..Len(web.value.s) : web.value.s[i] \in {NUL, DEL}
    /\ \E i \in 1..(Len(web.value.s) - 1) :
          web.value.s[i] \in Whitespace \ Control /\ web.value.s[i + 1] \in Whitespace \ Control
    /\ Len(web.text) >= 3

\* ---- C19, C20
RegisterCall == web.op = "register"
HasData == web.json = "object" /\ web.data # NoData
Raw(f) == Get(web.data, f, Str(<<>>))
\* the handler got as far as calling the validation
Validated == RegisterCall /\ HasData /\ web.status \in {HTTP_BAD_REQUEST, HTTP_CREATED}
\* C19: in the /api/register handler the password and confirm_password
\* handed to the validation are exactly the raw request values, control
\* characters and whitespace included, while first_name, last_name and email
\* are the sanitized values; the answer is the validation's verdict on that
\* payload.
C19_PasswordsNotSanitized ==
    Validated =>
        /\ web.payload["password"] = Raw("password")
        /\ web.payload["confirm_password"] = Raw("confirm_password")
        /\ \A f \in {"first_name", "last_name", "email"} :
              /\ web.payload[f] = Str(sanitize_input(Raw(f)).text)
              /\ \A i \in 1..Len(web.payload[f].s) : web.payload[f].s[i] \notin Control
        /\ LET v == validate_registration(EmptyDict,
                        RegistrationData(web.payload["first_name"], web.payload["last_name"],
                                         web.payload["email"], Raw("password"),
                                         Raw("confirm_password")))
           IN  (web.status = HTTP_CREATED) <=> v.ret

\* a password that starts with a tab reaches the validation as it is and is
\* refused, though sanitizing it would have made it acceptable, while the
\* first name is cleaned
C19_Witness ==
    /\ Validated /\ web.status = HTTP_BAD_REQUEST
    /\ Raw("password") = Str(TabbedPassword)
    /\ Raw("confirm_password") = Str(TabbedPassword)
    /\ web.payload["password"] = Str(TabbedPassword)
    /\ Keys(web.errors) = {"password"}
    /\ web.payload["first_name"] # Raw("first_name")

\* C20: POST /api/register answers 400 with success = false and an error
\* map when the request has no JSON data (the 'general' entry) or when the
\* sanitized payload fails the validation (the validation's field-keyed
\* map), and 201 with success = true, no errors and the sanitized names and
\* email (never a password) exactly when the sanitized payload passes it.
C20_RegisterStatus ==
    RegisterCall =>
        LET v == validate_registration(EmptyDict, web.payload)
        IN  /\ ~HasData =>
                  /\ web.status = 400 /\ ~web.success
                  /\ Keys(web.errors) = {"general"}
            /\ (HasData /\ web.exc = "none") =>
                  /\ web.payload = sanitized_data(web.data)
                  /\ v.exc = "none"
                  /\ web.status = (IF v.ret THEN 201 ELSE 400)
                  /\ web.success = v.ret
                  /\ web.errors = v.errors
                  /\ v.ret <=> (web.errors = EmptyDict)
                  /\ Keys(web.errors) \subseteq ValidatorFields
                  /\ web.echo = IF v.ret
                                THEN RegistrationData(web.payload["first_name"],
                                                      web.payload["last_name"],
                                                      web.payload["email"], Absent, Absent)
                                ELSE NoData
            /\ (web.status = 201) <=> (HasData /\ web.exc = "none" /\ v.ret)
            /\ web.status \in {201, 400} <=> web.exc = "none"

\* a request whose names and email need cleaning is accepted with 201
C20_Witness ==
    /\ RegisterCall /\ web.status = 201 /\ web.success
    /\ web.echo["first_name"] = Str(GoodName)
    /\ Raw("first_name") # Str(GoodName)
    /\ web.echo["password"] = Absent

\* ---- C21
\* every text the validator or the handler can put into an answer
FixedMessages ==
    {RequiredMsg(f) : f \in ValidatorFields}
      \cup {TooShortMsg(f) : f \in {"first_name", "last_name"}}
      \cup {TooLongMsg(f) : f \in {"first_name", "last_name"}}
      \cup {BadCharsMsg(f) : f \in {"first_name", "last_name"}}
      \cup {Msg("Please enter a valid email address"), Msg("Email address is too long"),
            Msg("Password must be at least 8 characters long"),
            Msg("Password is too long (max 128 characters)"), PasswordCompositionMsg,
            Msg("Passwords do not match"), Msg("Request must include JSON data")}
\* the value data.get(key, '') reads for a field submitted as v
Submitted(v) == IF v.kind = "absent" THEN Str(<<>>) ELSE v
\* the password rule a value fails, and the confirmation rule a pair fails
PasswordRuleFailed(pw) ==
    IF Falsy(pw) THEN "required"
    ELSE IF pw.kind # "str" THEN "raises"
    ELSE IF Strip(pw.s) = <<>> THEN "required"
    ELSE IF Len(pw.s) < 8 THEN "too short"
    ELSE IF Len(pw.s) > 128 THEN "too long"
    ELSE IF ~PASSWORD_REGEX(pw.s) THEN "composition"
    ELSE "none"
ConfirmRuleFailed(pw, cp) ==
    IF PasswordRuleFailed(pw) = "raises" THEN "not reached"
    ELSE IF Falsy(cp) THEN "required"
    ELSE IF cp.kind # "str" THEN "raises"
    ELSE IF Strip(cp.s) = <<>> THEN "required"
    ELSE IF cp # pw THEN "mismatch"
    ELSE "none"
\* the request with other passwords in it
WithPasswords(data, pw, cp) ==
    RegistrationData(data["first_name"], data["last_name"], data["email"], pw, cp)
\* what the client sees of an answer
Answer(w) == <<w.status, w.success, w.message, w.errors, w.echo, w.exc>>

\* C21: /api/register never echoes a password.  The success body's data holds
\* exactly the sanitized first_name, last_name and email; every error message
\* is one of the fixed texts; and a request that differs from the one served
\* only in its password and confirm_password values, and fails (or passes)
\* the same password and confirmation rules, gets the identical answer.
C21_PasswordNeverEchoed ==
    (RegisterCall /\ HasData) =>
        /\ web.status = HTTP_CREATED =>
              web.echo = RegistrationData(Str(sanitize_input(Raw("first_name")).text),
                                          Str(sanitize_input(Raw("last_name")).text),
                                          Str(sanitize_input(Raw("email")).text),
                                          Absent, Absent)
        /\ web.status # HTTP_CREATED => web.echo = NoData
        /\ \A i \in DOMAIN web.errors : web.errors[i].m \in FixedMessages
        /\ \A pw \in RegisterPasswords, cp \in RegisterConfirms :
              (/\ PasswordRuleFailed(Submitted(pw)) = PasswordRuleFailed(Raw("password"))
               /\ ConfirmRuleFailed(Submitted(pw), Submitted(cp))
                     = ConfirmRuleFailed(Raw("password"), Raw("confirm_password")))
                => Answer(register("object", WithPasswords(web.data, pw, cp))) = Answer(web)

\* an accepted request: another acceptable password would get the same 201
\* answer, and the answer holds no password
C21_Witness ==
    /\ RegisterCall /\ web.status = HTTP_CREATED
    /\ web.data["password"] = Str(OtherGoodPassword)
    /\ web.data["confirm_password"] = Str(OtherGoodPassword)
    /\ web.echo["password"] = Absent /\ web.echo["confirm_password"] = Absent
    /\ web.echo["email"] = Str(GoodEmail)

\* ---- C22
ProbeCall == web.op = "validate_field"
\* the request lacks a key or names a field the probe does not serve
ProbeRefused ==
    \/ web.json = "none" \/ ~web.field.present \/ web.value.kind = "absent"
    \/ web.field.name \notin {"email", "password", "first_name", "last_name"}
\* the map holding only the probed field
ProbeData == [NoData EXCEPT ![web.field.name] = web.value]

\* C22: /api/validate runs only the probed field's rule, on a fresh
\* validator.  A request without field or value, or naming a field other
\* than email, password, first_name and last_name, gets status 400 with
\* valid = false.  Otherwise, for a value that is a string or null, the answer
\* has valid = true exactly when the field's rule accepts the value, and
\* valid = false with the message of that field's rule when it does not.  (A
\* number other than zero makes the rule raise; the 500 handler answers.)
C22_FieldProbe ==
    ProbeCall =>
        /\ ProbeRefused =>
              /\ web.status = 400 /\ ~web.valid /\ web.exc = "none"
              /\ web.error \in {Msg("Missing field or value"), Msg("Unknown field")}
        /\ (~ProbeRefused /\ web.value.kind \in {"str", "none"}) =>
              LET f == web.field.name
                  alone == FieldCheck(EmptyDict, f, ProbeData)
              IN  /\ web.status = 200 /\ web.exc = "none"
                  /\ web.valid <=> ValidatorRuleAccepts(f, ProbeData)
                  /\ web.valid => web.error = Msg("")
                  /\ ~web.valid =>
                        /\ Keys(alone.errors) = {f}
                        /\ web.error = DictGet(alone.errors, f)
        /\ (web.status \in {200, 400}) <=> (web.exc = "none")

\* a first name of one letter is probed and refused with the too-short text
C22_Witness ==
    /\ ProbeCall /\ web.status = 200 /\ ~web.valid
    /\ web.field = FieldKey("first_name")
    /\ web.value = Str(<<"A">>)
    /\ web.error = TooShortMsg("first_name")

\* ---- C23
\* the checks a value violates, each taken by itself
NameViolations(s) ==
    (IF Strip(s) = <<>> THEN {"required"} ELSE {})
      \cup (IF Len(Strip(s)) < 2 THEN {"too short"} ELSE {})
      \cup (IF Len(s) > 50 THEN {"too long"} ELSE {})
      \cup (IF ~NAME_REGEX(s) THEN {"format"} ELSE {})
EmailViolations(s) ==
    (IF Strip(s) = <<>> THEN {"required"} ELSE {})
      \cup (IF ~EMAIL_REGEX(s) THEN {"format"} ELSE {})
      \cup (IF Len(s) > 254 THEN {"too long"} ELSE {})
PasswordViolations(s) ==
    (IF Strip(s) = <<>> THEN {"required"} ELSE {})
      \cup (IF Len(s) < 8 THEN {"too short"} ELSE {})
      \cup (IF Len(s) > 128 THEN {"too long"} ELSE {})
      \cup (IF ~PASSWORD_REGEX(s) THEN {"format"} ELSE {})
NamePrecedence     == <<"required", "too short", "too long", "format">>
EmailPrecedence    == <<"required", "format", "too long">>
PasswordPrecedence == <<"required", "too short", "too long", "format">>
\* the first check of the precedence that is violated
FirstViolated(order, violated) ==
    order[CHOOSE k \in DOMAIN order :
             /\ order[k] \in violated
             /\ \A j \in 1..(k - 1) : order[j] \notin violated]
\* the message of a check of a field
CheckMessage(f, check) ==
    CASE check = "required" -> RequiredMsg(f)
      [] f \in {"first_name", "last_name"} /\ check = "too short" -> TooShortMsg(f)
      [] f \in {"first_name", "last_name"} /\ check = "too long"  -> TooLongMsg(f)
      [] f \in {"first_name", "last_name"} /\ check = "format"    -> BadCharsMsg(f)
      [] f = "email" /\ check = "format"   -> Msg("Please enter a valid email address")
      [] f = "email" /\ check = "too long" -> Msg("Email address is too long")
      [] f = "password" /\ check = "too short" ->
            Msg("Password must be at least 8 characters long")
      [] f = "password" /\ check = "too long" ->
            Msg("Password is too long (max 128 characters)")
      [] f = "password" /\ check = "format" -> PasswordCompositionMsg
RuleCall ==
    /\ IsValidator /\ ncalls = 1 /\ last.value.kind = "str"
    /\ last.op \in {"validate_name", "validate_email", "validate_password"}

\* C23: a validate_name, validate_email or validate_password call on a fresh
\* validator records exactly one error when the value violates any check, the
\* one of the first violated check in the order blank, too short, too long,
\* bad character (names); blank, bad format, too long (email); blank, too
\* short, too long, composition (password); and none when no check is
\* violated.
C23_FirstViolatedCheckReported ==
    RuleCall =>
        LET f == last.field
            s == last.value.s
            violated == CASE last.op = "validate_name"  -> NameViolations(s)
                          [] last.op = "validate_email" -> EmailViolations(s)
                          [] OTHER                      -> PasswordViolations(s)
            order == CASE last.op = "validate_name"  -> NamePrecedence
                       [] last.op = "validate_email" -> EmailPrecedence
                       [] OTHER                      -> PasswordPrecedence
        IN  /\ last.ret <=> (violated = {})
            /\ last.ret => errors = EmptyDict
            /\ ~last.ret =>
                  errors = <<[k |-> f, m |-> CheckMessage(f, FirstViolated(order, violated))]>>

\* an address that is both malformed and over-long gets the format error
C23_Witness ==
    /\ RuleCall /\ last.op = "validate_email"
    /\ EmailViolations(last.value.s) = {"format", "too long"}
    /\ errors = <<[k |-> "email", m |-> Msg("Please enter a valid email address")]>>

\* ---- C24
FullValidations == {"validate_registration", "validate"}
\* the step is a field-level validate_* call on the instance
FieldLevelStep == ncalls' = ncalls + 1 /\ last'.op \notin FullValidations
\* the dictionary differs from the one before in the entry of key f at most,
\* which it has
OnlyKeySet(before, after, f) ==
    /\ Keys(after) = Keys(before) \cup {f}
    /\ Len(after) = Len(before) + (IF f \in Keys(before) THEN 0 ELSE 1)
    /\ \A i \in DOMAIN before : before[i].k # f => after[i] = before[i]
\* the list is the one before with one more message at its end
OneAppended(before, after) ==
    /\ Len(after) = Len(before) + 1
    /\ SubSeq(after, 1, Len(before)) = before

\* C24: a field-level validate_* call that returns True leaves the errors
\* accumulator of its instance as it was, entries of its own field included;
\* one that returns False sets the entry of its own field and no other
\* (RegistrationValidator) or appends exactly one message to the list
\* (RegistrationForm).
C24_FieldCallFrame ==
    [][FieldLevelStep =>
          /\ last'.ret => errors' = errors /\ formErrors' = formErrors
          /\ (~last'.ret /\ IsValidator) =>
                 OnlyKeySet(errors, errors', last'.field) /\ formErrors' = formErrors
          /\ (~last'.ret /\ ~IsValidator) =>
                 OneAppended(formErrors, formErrors') /\ errors' = errors]_vars

\* a valid address checked after an invalid one: the error of the first call
\* is still recorded
C24_Witness ==
    /\ IsValidator /\ ncalls = 2
    /\ last.op = "validate_email" /\ last.ret
    /\ errors = <<[k |-> "email", m |-> Msg("Please enter a valid email address")]>>

\* ---- C25
\* no control character, no two adjacent whitespace characters, no whitespace
\* at either end
FreeOfDirt(s) ==
    /\ \A i \in 1..Len(s) : s[i] \notin Control
    /\ \A i \in 1..(Len(s) - 1) : ~(s[i] \in Whitespace /\ s[i + 1] \in Whitespace)
    /\ s # <<>> => (s[1] \notin Whitespace /\ s[Len(s)] \notin Whitespace)
\* as FreeOfDirt, and the only whitespace character is the space
SingleSpaced(s) ==
    /\ FreeOfDirt(s)
    /\ \A i \in 1..Len(s) : s[i] \in Whitespace => s[i] = " "
\* sanitizing the returned text again returns it
Resanitized == sanitize_input(Str(web.text)) = TextResult(web.text)

\* C25: for every input string s, sanitize_input(sanitize_input(s)) equals
\* sanitize_input(s); and a string without control characters whose only
\* whitespace is single spaces between other characters is returned
\* unchanged.
C25_SanitizeIdempotent ==
    (SanitizeCall /\ web.value.kind = "str") =>
        /\ Resanitized
        /\ SingleSpaced(web.value.s) => web.text = web.value.s

\* C25 as stated: sanitize_input is idempotent, and every string free of
\* control characters, repeated whitespace and surrounding whitespace is
\* returned unchanged.
C25_AsStated ==
    (SanitizeCall /\ web.value.kind = "str") =>
        /\ Resanitized
        /\ FreeOfDirt(web.value.s) => web.text = web.value.s

\* a string with one no-break space between two letters: free of control
\* characters, repeated and surrounding whitespace, returned with a space in
\* its place, and that text is returned as it is when sanitized again
C25_Witness ==
    /\ SanitizeCall /\ web.value.kind = "str"
    /\ FreeOfDirt(web.value.s)
    /\ \E i \in 2..(Len(web.value.s) - 1) :
          /\ web.value.s[i] = NBSP
          /\ web.text = [web.value.s EXCEPT ![i] = " "]
    /\ Resanitized

====
